---- MODULE Spec2Model ----
(***************************************************************************)
(* Faceted search filters of alice-lg (pkg/api): filters, filter groups    *)
(* with their value index, filter sets of six groups, the builders that    *)
(* fill them from observed routes, matching, Combine / Sub /               *)
(* MergeProperties; the parsers that make filter sets from a query and     *)
(* from search tokens; the parsers of the community sections of the        *)
(* configuration (package config).                                         *)
(*                                                                         *)
(* Filters are heap objects: a group holds a list of references (ids into  *)
(* heap), so that two groups can share a filter the way two Go slices of   *)
(* *SearchFilter do.                                                       *)
(***************************************************************************)
EXTENDS Integers, Sequences, FiniteSets, TLC

VARIABLES heap, slots, result, steps, observed, input, parsed

vars == <<heap, slots, result, steps, observed, input, parsed>>

\* ---------------------------------------------------------------- bounds
\* most calls in one run
MaxSteps == 4
\* most builder calls in one recorded run
MaxObserved == 3

\* ------------------------------------------------------------ facet keys
SearchKeySources == "sources"
SearchKeyASNS == "asns"
SearchKeyCommunities == "communities"
SearchKeyExtCommunities == "ext_communities"
SearchKeyLargeCommunities == "large_communities"
SearchKeyAddrFamily == "addr_family"

AddrFamilyIPv4 == 4
AddrFamilyIPv6 == 6

\* ---------------------------------------------------------- filter values
\* FilterValue is interface{}: a value carries its dynamic type in kind.
\* A *string is an address; Mem gives the string each address holds.
\* Addresses 1 and 2 hold the same text.
Mem == <<"rs1", "rs1", "rs2">>

StringValue(s) == [kind |-> "string", v |-> s]
PtrValue(a) == [kind |-> "ptr", v |-> a]
IntValue(i) == [kind |-> "int", v |-> i]
Uint8Value(i) == [kind |-> "uint8", v |-> i]
CommunityValue(c) == [kind |-> "Community", v |-> c]
ExtCommunityValue(c) == [kind |-> "ExtCommunity", v |-> c]

\* strconv.Itoa
Itoa(i) == ToString(i)

RECURSIVE JoinInts(_, _)
JoinInts(com, i) ==
    IF i > Len(com) THEN ""
    ELSE (IF i > 1 THEN ":" ELSE "") \o Itoa(com[i]) \o JoinInts(com, i + 1)

\* Community.String
CommunityString(com) ==
    IF Len(com) < 1 THEN "" ELSE JoinInts(com, 1)

RECURSIVE JoinExt(_, _)
JoinExt(com, i) ==
    IF i > Len(com) THEN ""
    ELSE ":" \o Itoa(com[i]) \o JoinExt(com, i + 1)

\* ExtCommunity.String
ExtCommunityString(com) ==
    IF Len(com) < 1 THEN "" ELSE com[1] \o JoinExt(com, 2)

\* filterValueAsString; PANIC for a value of no known type
PANIC == "panic!"

filterValueAsString(value) ==
    CASE value.kind = "int" -> Itoa(value.v)
      [] value.kind = "uint8" -> Itoa(value.v)
      [] value.kind = "ptr" -> Mem[value.v]
      [] value.kind = "string" -> value.v
      [] value.kind = "Community" -> CommunityString(value.v)
      [] value.kind = "ExtCommunity" -> ExtCommunityString(value.v)
      [] OTHER -> PANIC

\* ------------------------------------------------------------- comparison
\* The compare functions answer "true", "false", or "panic" where a type
\* assertion without the ok form fails.
searchFilterCmpInt(a, b) ==
    IF a.kind # "int" \/ b.kind # "int" THEN "panic"
    ELSE IF a.v = b.v THEN "true" ELSE "false"

searchFilterCmpString(a, b) ==
    LET ptrA == a.kind = "ptr"
        ptrB == b.kind = "ptr"
    IN  IF ptrA /\ ptrB
        THEN (IF a.v = b.v THEN "true" ELSE "false")
        ELSE IF (~ptrA /\ a.kind # "string") \/ (~ptrB /\ b.kind # "string")
        THEN "panic"
        ELSE LET valA == IF ptrA THEN Mem[a.v] ELSE a.v
                 valB == IF ptrB THEN Mem[b.v] ELSE b.v
             IN  IF valA = valB THEN "true" ELSE "false"

searchFilterCmpCommunity(a, b) ==
    IF a.kind # "Community" \/ b.kind # "Community" THEN "panic"
    ELSE IF Len(a.v) # Len(b.v) THEN "false"
    ELSE IF \A i \in 1..Len(a.v) : a.v[i] = b.v[i] THEN "true" ELSE "false"

searchFilterCmpExtCommunity(a, b) ==
    IF a.kind # "ExtCommunity" \/ b.kind # "ExtCommunity" THEN "panic"
    ELSE IF Len(a.v) # Len(b.v) \/ Len(a.v) # 3 \/ Len(b.v) # 3 THEN "false"
    ELSE IF a.v[1] = b.v[1] /\ a.v[2] = b.v[2] /\ a.v[3] = b.v[3]
         THEN "true" ELSE "false"

\* SearchFilter.Equal, on the two filters' values: the compare function is
\* chosen by the type of other's value alone.
Equal(fv, otherv) ==
    CASE otherv.kind = "Community" -> searchFilterCmpCommunity(fv, otherv)
      [] otherv.kind = "ExtCommunity" -> searchFilterCmpExtCommunity(fv, otherv)
      [] otherv.kind = "int" -> searchFilterCmpInt(fv, otherv)
      [] otherv.kind = "string" -> searchFilterCmpString(fv, otherv)
      [] otherv.kind = "ptr" -> searchFilterCmpString(fv, otherv)
      [] OTHER -> "false"

\* ---------------------------------------------------------- filter groups
Nil == 0
Panicked == -1

EmptyIdx == [k \in {} |-> 0]

NewGroup(key) == [Key |-> key, Filters |-> <<>>, filtersIdx |-> EmptyIdx]

RECURSIVE FindFrom(_, _, _, _)
FindFrom(h, fs, filterv, i) ==
    IF i > Len(fs) THEN Nil
    ELSE LET e == Equal(h[fs[i]].Value, filterv)
         IN  IF e = "panic" THEN Panicked
             ELSE IF e = "true" THEN fs[i]
             ELSE FindFrom(h, fs, filterv, i + 1)

\* FindFilter: the reference of the first filter Equal to the given one,
\* Nil when there is none, Panicked when a comparison panics
FindFilter(h, g, filterv) == FindFrom(h, g.Filters, filterv, 1)

\* Contains: "true" / "false" / "panic"
Contains(h, g, filterv) ==
    LET f == FindFilter(h, g, filterv)
    IN  IF f = Panicked THEN "panic" ELSE IF f # Nil THEN "true" ELSE "false"

\* GetFilterByValue: index lookup by string representation
GetFilterByValue(g, value) ==
    LET ref == filterValueAsString(value)
    IN  IF ref \notin DOMAIN g.filtersIdx THEN Nil
        ELSE g.Filters[g.filtersIdx[ref] + 1]

\* AddFilter that appends the filter with the cardinality it came with
AddFilterKeepsCardinality(h, g, filter) ==
    LET presentFilter == GetFilterByValue(g, filter.Value)
    IN  IF presentFilter # Nil
        THEN [heap |-> [h EXCEPT ![presentFilter].Cardinality = @ + 1],
              group |-> g]
        ELSE LET idx == Len(g.Filters)
                 ref == filterValueAsString(filter.Value)
                 id == Len(h) + 1
             IN  [heap |-> Append(h, filter),
                  group |-> [g EXCEPT !.Filters = Append(@, id),
                                      !.filtersIdx = (ref :> idx) @@ @]]

\* AddFilter on group g with a filter object the caller just made:
\* answers the new heap and the new group
AddFilter(h, g, filter) ==
    LET presentFilter == GetFilterByValue(g, filter.Value)
    IN  IF presentFilter # Nil
        THEN [heap |-> [h EXCEPT ![presentFilter].Cardinality = @ + 1],
              group |-> g]
        ELSE LET idx == Len(g.Filters)
                 ref == filterValueAsString(filter.Value)
                 id == Len(h) + 1
             IN  [heap |-> Append(h, [filter EXCEPT !.Cardinality = 1]),
                  group |-> [g EXCEPT !.Filters = Append(@, id),
                                      !.filtersIdx = (ref :> idx) @@ @]]

RECURSIVE IndexFrom(_, _, _, _)
IndexFrom(h, fs, i, idx) ==
    IF i > Len(fs) THEN idx
    ELSE IndexFrom(h, fs, i + 1,
                   (filterValueAsString(h[fs[i]].Value) :> (i - 1)) @@ idx)

\* rebuildIndex: a later filter with the same string replaces the entry
rebuildIndex(h, g) ==
    [g EXCEPT !.filtersIdx = IndexFrom(h, g.Filters, 1, EmptyIdx)]

\* ------------------------------------------------------------ filter sets
\* NewSearchFilters: six empty groups, the order is relevant
NewSearchFilters ==
    << NewGroup(SearchKeySources),
       NewGroup(SearchKeyASNS),
       NewGroup(SearchKeyCommunities),
       NewGroup(SearchKeyExtCommunities),
       NewGroup(SearchKeyLargeCommunities),
       NewGroup(SearchKeyAddrFamily) >>

\* GetGroupByKey, as the position of the group (0 for nil)
GetGroupByKey(key) ==
    CASE key = SearchKeySources -> 1
      [] key = SearchKeyASNS -> 2
      [] key = SearchKeyCommunities -> 3
      [] key = SearchKeyExtCommunities -> 4
      [] key = SearchKeyLargeCommunities -> 5
      [] key = SearchKeyAddrFamily -> 6
      [] OTHER -> 0

\* s.GetGroupByKey(key).AddFilter(filter) on the pair st = (heap, set)
AddToGroup(st, key, filter) ==
    LET pos == GetGroupByKey(key)
        res == AddFilter(st.heap, st.set[pos], filter)
    IN  [heap |-> res.heap, set |-> [st.set EXCEPT ![pos] = res.group]]

NewFilter(name, value, card) ==
    [Cardinality |-> card, Name |-> name, Value |-> value]

\* ----------------------------------------------------------------- routes
Com1 == <<65000, 100>>
Com2 == <<65000, 200>>
Ext1 == <<"rt", 1, 2>>
Large1 == <<65000, 1, 2>>

\* LookupRoute: RouteServer.ID is a *string.  The first route carries one
\* community twice; the first two routes come from the same route server,
\* whose ID each of them holds in a string of its own.
LookupRoutes ==
    << [RouteServer |-> [ID |-> 1, Name |-> "RS1"],
        Neighbor |-> [ASN |-> 64512, Description |-> "peer-a"],
        BGP |-> [Communities |-> <<Com1, Com1>>,
                 ExtCommunities |-> <<>>,
                 LargeCommunities |-> <<>>],
        Family |-> AddrFamilyIPv4],
       [RouteServer |-> [ID |-> 2, Name |-> "RS1"],
        Neighbor |-> [ASN |-> 64512, Description |-> "peer-a"],
        BGP |-> [Communities |-> <<Com1>>,
                 ExtCommunities |-> <<>>,
                 LargeCommunities |-> <<>>],
        Family |-> AddrFamilyIPv4],
       [RouteServer |-> [ID |-> 3, Name |-> "RS2"],
        Neighbor |-> [ASN |-> 64513, Description |-> "peer-b"],
        BGP |-> [Communities |-> <<Com2>>,
                 ExtCommunities |-> <<Ext1>>,
                 LargeCommunities |-> <<Large1>>],
        Family |-> AddrFamilyIPv6] >>

RouteIds == 1..Len(LookupRoutes)

\* UpdateSourcesFromLookupRoute
UpdateSourcesFromLookupRoute(st, r) ==
    AddToGroup(st, SearchKeySources,
               NewFilter(r.RouteServer.Name, PtrValue(r.RouteServer.ID), 0))

\* UpdateASNSFromLookupRoute
UpdateASNSFromLookupRoute(st, r) ==
    AddToGroup(st, SearchKeyASNS,
               NewFilter(r.Neighbor.Description, IntValue(r.Neighbor.ASN), 0))

RECURSIVE AddCommunities(_, _, _, _)
AddCommunities(st, key, cs, i) ==
    IF i > Len(cs) THEN st
    ELSE AddCommunities(
             AddToGroup(st, key,
                        NewFilter(CommunityString(cs[i]),
                                  CommunityValue(cs[i]), 0)),
             key, cs, i + 1)

RECURSIVE AddExtCommunities(_, _, _)
AddExtCommunities(st, cs, i) ==
    IF i > Len(cs) THEN st
    ELSE AddExtCommunities(
             AddToGroup(st, SearchKeyExtCommunities,
                        NewFilter(ExtCommunityString(cs[i]),
                                  ExtCommunityValue(cs[i]), 0)),
             cs, i + 1)

\* UpdateFromRoute: communities, then ext communities, then large ones
UpdateFromRouteBGP(st, bgp) ==
    LET s1 == AddCommunities(st, SearchKeyCommunities, bgp.Communities, 1)
        s2 == AddExtCommunities(s1, bgp.ExtCommunities, 1)
    IN  AddCommunities(s2, SearchKeyLargeCommunities, bgp.LargeCommunities, 1)

\* UpdateCommunitiesFromLookupRoute
UpdateCommunitiesFromLookupRoute(st, r) == UpdateFromRouteBGP(st, r.BGP)

\* UpdateFromLookupRoute on the pair st = (heap, set)
UpdateFromLookupRouteOn(st, r) ==
    UpdateCommunitiesFromLookupRoute(
        UpdateASNSFromLookupRoute(
            UpdateSourcesFromLookupRoute(st, r), r), r)

\* addFilterAddrFamily
addFilterAddrFamily(st, af) ==
    LET name == IF af = AddrFamilyIPv6 THEN "IPv6" ELSE "IPv4"
    IN  AddToGroup(st, SearchKeyAddrFamily, NewFilter(name, IntValue(af), 1))

\* SetFilterAddrFamilies on the pair st = (heap, set)
SetFilterAddrFamiliesOn(st, ip4, ip6) ==
    LET s1 == IF ip4 THEN addFilterAddrFamily(st, AddrFamilyIPv4) ELSE st
    IN  IF ip6 THEN addFilterAddrFamily(s1, AddrFamilyIPv6) ELSE s1

\* --------------------------------------------------------------- matching
RECURSIVE HasFrom(_, _, _, _)
HasFrom(coms, community, n, i) ==
    IF i > Len(coms) THEN FALSE
    ELSE IF Len(coms[i]) # Len(community) THEN HasFrom(coms, community, n, i + 1)
    ELSE IF \A k \in 1..n : coms[i][k] = community[k] THEN TRUE
    ELSE HasFrom(coms, community, n, i + 1)

\* BGPInfo.HasCommunity
HasCommunity(bgp, community) ==
    IF Len(community) # 2 THEN FALSE
    ELSE HasFrom(bgp.Communities, community, 2, 1)

\* BGPInfo.HasExtCommunity
HasExtCommunity(bgp, community) ==
    IF Len(community) # 3 THEN FALSE
    ELSE HasFrom(bgp.ExtCommunities, community, 3, 1)

\* BGPInfo.HasLargeCommunity
HasLargeCommunity(bgp, community) ==
    IF Len(community) # 3 THEN FALSE
    ELSE HasFrom(bgp.LargeCommunities, community, 3, 1)

\* The Filterable methods of a lookup route
MatchSourceID(route, sourceID) == Mem[route.RouteServer.ID] = sourceID
MatchASN(route, asn) == route.Neighbor.ASN = asn
MatchCommunity(route, community) == HasCommunity(route.BGP, community)
MatchExtCommunity(route, community) == HasExtCommunity(route.BGP, community)
MatchLargeCommunity(route, community) == HasLargeCommunity(route.BGP, community)
MatchAddrFamily(route, family) == route.Family = family

searchFilterMatchSource(route, value) ==
    IF value.kind # "string" THEN FALSE ELSE MatchSourceID(route, value.v)

searchFilterMatchASN(route, value) ==
    IF value.kind # "int" THEN FALSE ELSE MatchASN(route, value.v)

searchFilterMatchCommunity(route, value) ==
    IF value.kind # "Community" THEN FALSE ELSE MatchCommunity(route, value.v)

searchFilterMatchExtCommunity(route, value) ==
    IF value.kind # "ExtCommunity" THEN FALSE
    ELSE MatchExtCommunity(route, value.v)

searchFilterMatchLargeCommunity(route, value) ==
    IF value.kind # "Community" THEN FALSE
    ELSE MatchLargeCommunity(route, value.v)

\* the family is converted to uint8 before the route sees it
searchFilterMatchAddrFamily(route, value) ==
    IF value.kind # "int" THEN FALSE
    ELSE MatchAddrFamily(route, value.v % 256)

\* selectCmpFuncByKey: the name of the comparator, "nil" for an unknown key
selectCmpFuncByKey(key) ==
    CASE key = SearchKeySources -> "searchFilterMatchSource"
      [] key = SearchKeyASNS -> "searchFilterMatchASN"
      [] key = SearchKeyCommunities -> "searchFilterMatchCommunity"
      [] key = SearchKeyExtCommunities -> "searchFilterMatchExtCommunity"
      [] key = SearchKeyLargeCommunities -> "searchFilterMatchLargeCommunity"
      [] key = SearchKeyAddrFamily -> "searchFilterMatchAddrFamily"
      [] OTHER -> "nil"

\* calling a comparator selectCmpFuncByKey returned
ApplyCmp(cmp, route, value) ==
    CASE cmp = "searchFilterMatchSource" -> searchFilterMatchSource(route, value)
      [] cmp = "searchFilterMatchASN" -> searchFilterMatchASN(route, value)
      [] cmp = "searchFilterMatchCommunity" ->
             searchFilterMatchCommunity(route, value)
      [] cmp = "searchFilterMatchExtCommunity" ->
             searchFilterMatchExtCommunity(route, value)
      [] cmp = "searchFilterMatchLargeCommunity" ->
             searchFilterMatchLargeCommunity(route, value)
      [] cmp = "searchFilterMatchAddrFamily" ->
             searchFilterMatchAddrFamily(route, value)

RECURSIVE AnyFrom(_, _, _, _, _)
AnyFrom(h, fs, cmp, route, i) ==
    IF i > Len(fs) THEN FALSE
    ELSE IF ApplyCmp(cmp, route, h[fs[i]].Value) THEN TRUE
    ELSE AnyFrom(h, fs, cmp, route, i + 1)

\* SearchFilterGroup.MatchAny
MatchAny(h, g, route) ==
    IF Len(g.Filters) = 0 THEN TRUE
    ELSE LET cmp == selectCmpFuncByKey(g.Key)
         IN  IF cmp = "nil" THEN FALSE
             ELSE AnyFrom(h, g.Filters, cmp, route, 1)

\* MatchAll that is content with one matching filter
MatchAllAcceptsAny(h, g, route) ==
    IF Len(g.Filters) = 0 THEN TRUE
    ELSE LET cmp == selectCmpFuncByKey(g.Key)
         IN  IF cmp = "nil" THEN FALSE
             ELSE AnyFrom(h, g.Filters, cmp, route, 1)

RECURSIVE AllFrom(_, _, _, _, _)
AllFrom(h, fs, cmp, route, i) ==
    IF i > Len(fs) THEN TRUE
    ELSE IF ~ApplyCmp(cmp, route, h[fs[i]].Value) THEN FALSE
    ELSE AllFrom(h, fs, cmp, route, i + 1)

\* SearchFilterGroup.MatchAll
MatchAll(h, g, route) ==
    IF Len(g.Filters) = 0 THEN TRUE
    ELSE LET cmp == selectCmpFuncByKey(g.Key)
         IN  IF cmp = "nil" THEN FALSE
             ELSE AllFrom(h, g.Filters, cmp, route, 1)

\* SearchFilters.MatchRoute
MatchRoute(h, s, r) ==
    IF ~MatchAny(h, s[GetGroupByKey(SearchKeySources)], r) THEN FALSE
    ELSE IF ~MatchAny(h, s[GetGroupByKey(SearchKeyASNS)], r) THEN FALSE
    ELSE IF ~MatchAll(h, s[GetGroupByKey(SearchKeyCommunities)], r) THEN FALSE
    ELSE IF ~MatchAll(h, s[GetGroupByKey(SearchKeyExtCommunities)], r) THEN FALSE
    ELSE IF ~MatchAll(h, s[GetGroupByKey(SearchKeyLargeCommunities)], r)
         THEN FALSE
    ELSE IF ~MatchAny(h, s[GetGroupByKey(SearchKeyAddrFamily)], r) THEN FALSE
    ELSE TRUE

\* ------------------------------------------------- Combine, Sub, Merge
\* the second loop of Combine with the test of Contains inverted
RECURSIVE CombineFromInverted(_, _, _, _, _)
CombineFromInverted(h, key, fs, others, i) ==
    IF i > Len(others) THEN [panic |-> FALSE, Filters |-> fs]
    ELSE LET c == Contains(h, [Key |-> key, Filters |-> fs,
                               filtersIdx |-> EmptyIdx],
                           h[others[i]].Value)
         IN  IF c = "panic" THEN [panic |-> TRUE, Filters |-> fs]
             ELSE IF c = "false"
             THEN CombineFromInverted(h, key, fs, others, i + 1)
             ELSE CombineFromInverted(h, key, Append(fs, others[i]), others,
                                      i + 1)

\* the second loop of Combine: fs is combined.Filters so far
RECURSIVE CombineFrom(_, _, _, _, _)
CombineFrom(h, key, fs, others, i) ==
    IF i > Len(others) THEN [panic |-> FALSE, Filters |-> fs]
    ELSE LET c == Contains(h, [Key |-> key, Filters |-> fs,
                               filtersIdx |-> EmptyIdx],
                           h[others[i]].Value)
         IN  IF c = "panic" THEN [panic |-> TRUE, Filters |-> fs]
             ELSE IF c = "true" THEN CombineFrom(h, key, fs, others, i + 1)
             ELSE CombineFrom(h, key, Append(fs, others[i]), others, i + 1)

\* one round of the loop of Combine: the combined group
CombineGroup(h, group, otherGroup) ==
    LET res == CombineFrom(h, group.Key, group.Filters, otherGroup.Filters, 1)
    IN  [panic |-> res.panic,
         group |-> rebuildIndex(h, [Key |-> group.Key,
                                    Filters |-> res.Filters,
                                    filtersIdx |-> EmptyIdx])]

\* SearchFilters.Combine: the new filter set, or a panic
Combine(h, s, other) ==
    LET gs == [id \in 1..Len(s) |-> CombineGroup(h, s[id], other[id])]
    IN  [panic |-> \E id \in 1..Len(s) : gs[id].panic,
         set |-> [id \in 1..Len(s) |-> gs[id].group]]

RECURSIVE SubFrom(_, _, _, _, _)
SubFrom(h, otherGroup, fs, mine, i) ==
    IF i > Len(mine) THEN [panic |-> FALSE, Filters |-> fs]
    ELSE LET c == Contains(h, otherGroup, h[mine[i]].Value)
         IN  IF c = "panic" THEN [panic |-> TRUE, Filters |-> fs]
             ELSE IF c = "true" THEN SubFrom(h, otherGroup, fs, mine, i + 1)
             ELSE SubFrom(h, otherGroup, Append(fs, mine[i]), mine, i + 1)

\* one round of the loop of Sub: the diff group
SubGroup(h, group, otherGroup) ==
    LET res == SubFrom(h, otherGroup, <<>>, group.Filters, 1)
    IN  [panic |-> res.panic,
         group |-> rebuildIndex(h, [Key |-> group.Key,
                                    Filters |-> res.Filters,
                                    filtersIdx |-> EmptyIdx])]

\* SearchFilters.Sub: the new filter set, or a panic
Sub(h, s, other) ==
    LET gs == [id \in 1..Len(s) |-> SubGroup(h, s[id], other[id])]
    IN  [panic |-> \E id \in 1..Len(s) : gs[id].panic,
         set |-> [id \in 1..Len(s) |-> gs[id].group]]

\* the inner loop of MergeProperties over the filters of one group; a
\* panic leaves the assignments made before it in place
RECURSIVE MergeFrom(_, _, _, _)
MergeFrom(st, fs, otherGroup, i) ==
    IF st.panic \/ i > Len(fs) THEN st
    ELSE LET otherFilter == FindFilter(st.heap, otherGroup,
                                       st.heap[fs[i]].Value)
         IN  IF otherFilter = Panicked THEN [st EXCEPT !.panic = TRUE]
             ELSE IF otherFilter = Nil
             THEN MergeFrom(st, fs, otherGroup, i + 1)
             ELSE MergeFrom(
                      [st EXCEPT !.heap =
                          [@ EXCEPT ![fs[i]].Name = st.heap[otherFilter].Name,
                                    ![fs[i]].Cardinality =
                                        st.heap[otherFilter].Cardinality]],
                      fs, otherGroup, i + 1)

RECURSIVE MergeGroups(_, _, _, _)
MergeGroups(st, s, other, id) ==
    IF st.panic \/ id > Len(s) THEN st
    ELSE MergeGroups(MergeFrom(st, s[id].Filters, other[id], 1),
                     s, other, id + 1)

\* SearchFilters.MergeProperties: the new heap, or a panic
MergeProperties(h, s, other) ==
    MergeGroups([panic |-> FALSE, heap |-> h], s, other, 1)

\* SearchFilters.HasGroup
HasGroup(s, key) == Len(s[GetGroupByKey(key)].Filters) > 0

\* ------------------------------------------------------------------- text
\* A text handed to a parser is a sequence of characters, each a string of
\* length one.
Digits == <<"0", "1", "2", "3", "4", "5", "6", "7", "8", "9">>

IsDigit(c) == \E d \in 1..Len(Digits) : Digits[d] = c

DigitValue(c) == (CHOOSE d \in 1..Len(Digits) : Digits[d] = c) - 1

\* the Go string of a text
RECURSIVE Str(_)
Str(text) == IF text = <<>> THEN "" ELSE text[1] \o Str(Tail(text))

RECURSIVE DecimalFrom(_, _, _)
DecimalFrom(text, i, acc) ==
    IF i > Len(text) THEN acc
    ELSE DecimalFrom(text, i + 1, acc * Len(Digits) + DigitValue(text[i]))

\* strconv.Atoi: an optional sign and at least one decimal digit
Atoi(text) ==
    LET signed == Len(text) > 0 /\ text[1] \in {"+", "-"}
        digits == IF signed THEN Tail(text) ELSE text
    IN  IF digits = <<>> \/ \E i \in 1..Len(digits) : ~IsDigit(digits[i])
        THEN [err |-> TRUE, v |-> 0]
        ELSE [err |-> FALSE,
              v |-> IF signed /\ text[1] = "-"
                    THEN 0 - DecimalFrom(digits, 1, 0)
                    ELSE DecimalFrom(digits, 1, 0)]

RECURSIVE SplitFrom(_, _, _, _)
SplitFrom(text, sep, i, cur) ==
    IF i > Len(text) THEN <<cur>>
    ELSE IF text[i] = sep
         THEN <<cur>> \o SplitFrom(text, sep, i + 1, <<>>)
         ELSE SplitFrom(text, sep, i + 1, Append(cur, text[i]))

\* strings.Split(text, sep): at least one part, also for the empty text
Split(text, sep) == SplitFrom(text, sep, 1, <<>>)

\* strings.SplitN(text, sep, 2): cut at the first sep, if there is one
SplitN2(text, sep) ==
    IF \E i \in 1..Len(text) : text[i] = sep
    THEN LET i == CHOOSE j \in 1..Len(text) :
                      /\ text[j] = sep
                      /\ \A k \in 1..(j - 1) : text[k] # sep
         IN  <<SubSeq(text, 1, i - 1), SubSeq(text, i + 1, Len(text))>>
    ELSE <<text>>

IsSpace(c) == c \in {" ", "\t", "\n", "\r"}

RECURSIVE TrimLeft(_)
TrimLeft(text) ==
    IF text # <<>> /\ IsSpace(text[1]) THEN TrimLeft(Tail(text)) ELSE text

RECURSIVE TrimRight(_)
TrimRight(text) ==
    IF text # <<>> /\ IsSpace(text[Len(text)])
    THEN TrimRight(SubSeq(text, 1, Len(text) - 1))
    ELSE text

\* strings.TrimSpace
TrimSpace(text) == TrimRight(TrimLeft(text))

\* strings.HasPrefix(text, c) for a prefix c of one character
HasPrefix(text, c) == Len(text) > 0 /\ text[1] = c

\* ---------------------------------------------------------- value parsers
\* A parser answers [err, filter]; the filter of a failed parse is nil.
ParseError == [err |-> TRUE, filter |-> Nil]

\* a source ID is taken as it is
parseStringValue(value) ==
    [err |-> FALSE, filter |-> NewFilter("", StringValue(Str(value)), 0)]

\* an ASN or an address family is a decimal integer
parseIntValue(value) ==
    LET v == Atoi(value)
    IN  IF v.err THEN ParseError
        ELSE [err |-> FALSE, filter |-> NewFilter("", IntValue(v.v), 0)]

RECURSIVE IntsFrom(_, _)
IntsFrom(components, i) ==
    IF i > Len(components) THEN <<>>
    ELSE <<Atoi(components[i]).v>> \o IntsFrom(components, i + 1)

\* a community is colon-delimited integers, as many as the text has
parseCommunityValue(value) ==
    LET components == Split(value, ":")
    IN  IF \E i \in 1..Len(components) : Atoi(components[i]).err
        THEN ParseError
        ELSE [err |-> FALSE,
              filter |-> NewFilter("", CommunityValue(IntsFrom(components, 1)), 0)]

\* an extended community is tag:int:int
parseExtCommunityValue(value) ==
    LET components == Split(value, ":")
    IN  IF Len(components) # 3 THEN ParseError
        ELSE IF Atoi(components[2]).err \/ Atoi(components[3]).err
        THEN ParseError
        ELSE [err |-> FALSE,
              filter |-> NewFilter("",
                            ExtCommunityValue(<<Str(components[1]),
                                                Atoi(components[2]).v,
                                                Atoi(components[3]).v>>), 0)]

\* the parser handed to parseQueryValueList
ApplyParser(parser, value) ==
    CASE parser = "parseStringValue" -> parseStringValue(value)
      [] parser = "parseIntValue" -> parseIntValue(value)
      [] parser = "parseCommunityValue" -> parseCommunityValue(value)
      [] parser = "parseExtCommunityValue" -> parseExtCommunityValue(value)

RECURSIVE ParseListFrom(_, _, _)
ParseListFrom(parser, items, i) ==
    IF i > Len(items) THEN [err |-> FALSE, filters |-> <<>>]
    ELSE LET one == ApplyParser(parser, items[i])
             rest == ParseListFrom(parser, items, i + 1)
         IN  IF one.err \/ rest.err THEN [err |-> TRUE, filters |-> <<>>]
             ELSE [err |-> FALSE, filters |-> <<one.filter>> \o rest.filters]

RECURSIVE ParseListSkipping(_, _, _)
ParseListSkipping(parser, items, i) ==
    IF i > Len(items) THEN [err |-> FALSE, filters |-> <<>>]
    ELSE LET one == ApplyParser(parser, items[i])
             rest == ParseListSkipping(parser, items, i + 1)
         IN  IF one.err THEN rest
             ELSE [err |-> FALSE, filters |-> <<one.filter>> \o rest.filters]

\* parseQueryValueList that leaves out the items that fail to parse
parseQueryValueListSkipping(parser, value) ==
    ParseListSkipping(parser, Split(value, ","), 1)

\* parseQueryValueList: the value is split on commas and every item parsed;
\* one item that fails to parse fails the list
parseQueryValueList(parser, value) ==
    ParseListFrom(parser, Split(value, ","), 1)

\* ------------------------------------------------- filter sets from input
RECURSIVE AddFiltersFrom(_, _, _, _)
AddFiltersFrom(st, key, filters, i) ==
    IF i > Len(filters) THEN st
    ELSE AddFiltersFrom(AddToGroup(st, key, filters[i]), key, filters, i + 1)

\* s.GetGroupByKey(key).AddFilters(filters)
AddFilters(st, key, filters) == AddFiltersFrom(st, key, filters, 1)

\* the parser FiltersFromQuery uses for a key; "" for a key it takes no
\* notice of
QueryParser(key) ==
    CASE key = SearchKeySources -> "parseStringValue"
      [] key = SearchKeyASNS -> "parseIntValue"
      [] key = SearchKeyCommunities -> "parseCommunityValue"
      [] key = SearchKeyExtCommunities -> "parseExtCommunityValue"
      [] key = SearchKeyLargeCommunities -> "parseCommunityValue"
      [] key = SearchKeyAddrFamily -> "parseIntValue"
      [] OTHER -> ""

\* url.Values.Get(key): the first value given for the key
QueryGet(query, key) == query[key][1]

RECURSIVE QueryFrom(_, _, _, _)
QueryFrom(st, query, order, i) ==
    IF i > Len(order) THEN [err |-> FALSE, at |-> "", heap |-> st.heap, set |-> st.set]
    ELSE LET key == order[i]
             value == QueryGet(query, key)
         IN  IF QueryParser(key) = ""
             THEN QueryFrom(st, query, order, i + 1)
             ELSE LET res == parseQueryValueList(QueryParser(key), value)
                  IN  IF res.err
                      THEN [err |-> TRUE, at |-> key, heap |-> st.heap,
                            set |-> Nil]
                      ELSE QueryFrom(AddFilters(st, key, res.filters),
                                     query, order, i + 1)

\* FiltersFromQuery(query), the keys of the map visited in the given order.
\* Answers the filter set (nil after an error), the heap with the filters
\* it made, and the key whose value failed to parse.
FiltersFromQuery(h, query, order) ==
    QueryFrom([heap |-> h, set |-> NewSearchFilters], query, order, 1)

\* parseCommunityFilterText that takes two segments for a large community
parseCommunityFilterTextSwapped(text) ==
    LET tokens == Split(text, ":")
        maybeExt == Atoi(tokens[1]).err
    IN  IF Len(tokens) < 2 THEN [err |-> TRUE, key |-> "", filter |-> Nil]
        ELSE IF maybeExt
        THEN LET ext == parseExtCommunityValue(text)
             IN  IF ext.err THEN [err |-> TRUE, key |-> "", filter |-> Nil]
                 ELSE [err |-> FALSE, key |-> SearchKeyExtCommunities,
                       filter |-> ext.filter]
        ELSE LET com == parseCommunityValue(text)
             IN  IF com.err THEN [err |-> TRUE, key |-> "", filter |-> Nil]
                 ELSE IF Len(tokens) = 2
                 THEN [err |-> FALSE, key |-> SearchKeyLargeCommunities,
                       filter |-> com.filter]
                 ELSE [err |-> FALSE, key |-> SearchKeyCommunities,
                       filter |-> com.filter]

\* parseCommunityFilterText: [err, key, filter]
parseCommunityFilterText(text) ==
    LET tokens == Split(text, ":")
        maybeExt == Atoi(tokens[1]).err
    IN  IF Len(tokens) < 2 THEN [err |-> TRUE, key |-> "", filter |-> Nil]
        ELSE IF maybeExt
        THEN LET ext == parseExtCommunityValue(text)
             IN  IF ext.err THEN [err |-> TRUE, key |-> "", filter |-> Nil]
                 ELSE [err |-> FALSE, key |-> SearchKeyExtCommunities,
                       filter |-> ext.filter]
        ELSE LET com == parseCommunityValue(text)
             IN  IF com.err THEN [err |-> TRUE, key |-> "", filter |-> Nil]
                 ELSE IF Len(tokens) = 2
                 THEN [err |-> FALSE, key |-> SearchKeyCommunities,
                       filter |-> com.filter]
                 ELSE [err |-> FALSE, key |-> SearchKeyLargeCommunities,
                       filter |-> com.filter]

RECURSIVE TokensFrom(_, _, _)
TokensFrom(st, tokens, i) ==
    IF i > Len(tokens) THEN [err |-> FALSE, heap |-> st.heap, set |-> st.set]
    ELSE LET value == tokens[i]
         IN  IF HasPrefix(value, "#")
             THEN LET res == parseCommunityFilterText(Tail(value))
                  IN  IF res.err
                      THEN [err |-> TRUE, heap |-> st.heap, set |-> Nil]
                      ELSE TokensFrom(AddToGroup(st, res.key, res.filter),
                                      tokens, i + 1)
             ELSE TokensFrom(st, tokens, i + 1)

\* FiltersFromTokens(tokens)
FiltersFromTokens(h, tokens) ==
    TokensFrom([heap |-> h, set |-> NewSearchFilters], tokens, 1)

\* ------------------------------------------- community sections (config)
BGPCommunityTypeStd == "std"
BGPCommunityTypeLarge == "large"
BGPCommunityTypeExt == "ext"

\* A BGPCommunityRange is a list of parts, a part a list of strings or of
\* integers.
StringList(l) == [kind |-> "strings", v |-> l]
IntList(l) == [kind |-> "ints", v |-> l]

RECURSIVE IntListFrom(_, _)
IntListFrom(strs, i) ==
    IF i > Len(strs) THEN <<>>
    ELSE (IF Atoi(strs[i]).err THEN <<>> ELSE <<Atoi(strs[i]).v>>)
         \o IntListFrom(strs, i + 1)

\* decoders.IntListFromStrings: the integers the strings stand for
IntListFromStrings(strs) == IntList(IntListFrom(strs, 1))

\* BGPCommunityRange.Type: the collection a range belongs to. Two parts
\* are a standard community, a first part of strings an extended one, and
\* any other range is a large community.
BGPCommunityRangeType(comm) ==
    IF Len(comm) = 2 THEN BGPCommunityTypeStd
    ELSE IF comm[1].kind = "strings" THEN BGPCommunityTypeExt
    ELSE BGPCommunityTypeLarge

\* the pair low, high of a token
RangeOf(t) ==
    LET values == SplitN2(t, "-")
    IN  IF Len(values) = 1 THEN <<values[1], values[1]>>
        ELSE <<values[1], values[2]>>

RECURSIVE PartsFrom(_, _)
PartsFrom(tokens, i) ==
    IF i > Len(tokens) THEN <<>>
    ELSE <<RangeOf(tokens[i])>> \o PartsFrom(tokens, i + 1)

RECURSIVE IntListsFrom(_, _)
IntListsFrom(parts, i) ==
    IF i > Len(parts) THEN <<>>
    ELSE <<IntListFromStrings(parts[i])>> \o IntListsFrom(parts, i + 1)

RangeError == [err |-> TRUE, comm |-> Nil]

\* parseRangeCommunity that takes the low value of a token for the high one
parseRangeCommunityLowOnly(s) ==
    LET tokens == Split(s, ":")
        parts == PartsFrom(tokens, 1)
        low == [ i \in 1..Len(parts) |-> <<parts[i][1], parts[i][1]>> ]
        isExt == Atoi(parts[1][1]).err
    IN  IF Len(tokens) < 2 THEN RangeError
        ELSE IF Len(parts) <= 1 THEN RangeError
        ELSE IF isExt /\ Len(parts) # 3 THEN RangeError
        ELSE IF isExt
        THEN [err |-> FALSE,
              comm |-> << StringList(<<Str(parts[1][1]), Str(parts[1][1])>>),
                          IntListFromStrings(low[2]),
                          IntListFromStrings(low[3]) >>]
        ELSE [err |-> FALSE, comm |-> IntListsFrom(low, 1)]

\* parseRangeCommunity: [err, comm]
parseRangeCommunity(s) ==
    LET tokens == Split(s, ":")
        parts == PartsFrom(tokens, 1)
        isExt == Atoi(parts[1][1]).err
    IN  IF Len(tokens) < 2 THEN RangeError
        ELSE IF Len(parts) <= 1 THEN RangeError
        ELSE IF isExt /\ Len(parts) # 3 THEN RangeError
        ELSE IF isExt
        THEN [err |-> FALSE,
              comm |-> << StringList(<<Str(parts[1][1]), Str(parts[1][1])>>),
                          IntListFromStrings(parts[2]),
                          IntListFromStrings(parts[3]) >>]
        ELSE [err |-> FALSE, comm |-> IntListsFrom(parts, 1)]

EmptyRanges == [Standard |-> <<>>, Large |-> <<>>, Extended |-> <<>>]

RECURSIVE RangeLinesFrom(_, _, _)
RangeLinesFrom(lines, i, set) ==
    IF i > Len(lines) THEN [err |-> FALSE, set |-> set]
    ELSE LET line == TrimSpace(lines[i])
             res == parseRangeCommunity(line)
             type == BGPCommunityRangeType(res.comm)
         IN  IF line = <<>> THEN RangeLinesFrom(lines, i + 1, set)
             ELSE IF HasPrefix(line, "#") THEN RangeLinesFrom(lines, i + 1, set)
             ELSE IF res.err THEN [err |-> TRUE, set |-> Nil]
             ELSE RangeLinesFrom(lines, i + 1,
                    CASE type = BGPCommunityTypeStd ->
                           [set EXCEPT !.Standard = Append(@, res.comm)]
                      [] type = BGPCommunityTypeLarge ->
                           [set EXCEPT !.Large = Append(@, res.comm)]
                      [] type = BGPCommunityTypeExt ->
                           [set EXCEPT !.Extended = Append(@, res.comm)]
                      [] OTHER -> set)

RECURSIVE RangeLinesSkipping(_, _, _)
RangeLinesSkipping(lines, i, set) ==
    IF i > Len(lines) THEN [err |-> FALSE, set |-> set]
    ELSE LET line == TrimSpace(lines[i])
             res == parseRangeCommunity(line)
             type == BGPCommunityRangeType(res.comm)
         IN  IF line = <<>> THEN RangeLinesSkipping(lines, i + 1, set)
             ELSE IF HasPrefix(line, "#") THEN RangeLinesSkipping(lines, i + 1, set)
             ELSE IF res.err THEN RangeLinesSkipping(lines, i + 1, set)
             ELSE RangeLinesSkipping(lines, i + 1,
                    CASE type = BGPCommunityTypeStd ->
                           [set EXCEPT !.Standard = Append(@, res.comm)]
                      [] type = BGPCommunityTypeLarge ->
                           [set EXCEPT !.Large = Append(@, res.comm)]
                      [] type = BGPCommunityTypeExt ->
                           [set EXCEPT !.Extended = Append(@, res.comm)]
                      [] OTHER -> set)

\* parseRangeCommunitiesSet that leaves out the lines that fail to parse
parseRangeCommunitiesSetSkipping(body) ==
    RangeLinesSkipping(Split(body, "\n"), 1, EmptyRanges)

\* parseRangeCommunitiesSet: [err, set], the set nil after an error
parseRangeCommunitiesSet(body) ==
    RangeLinesFrom(Split(body, "\n"), 1, EmptyRanges)

\* BGPCommunityMap.Set: the directory with the label of the community
MapSet(communities, community, label) ==
    [ k \in DOMAIN communities \cup {community} |->
        IF k = community THEN label ELSE communities[k] ]

RECURSIVE LabelLinesFrom(_, _, _)
LabelLinesFrom(communities, lines, i) ==
    IF i > Len(lines) THEN communities
    ELSE LET kv == SplitN2(lines[i], "=")
         IN  IF Len(kv) # 2
             THEN LabelLinesFrom(communities, lines, i + 1)
             ELSE LabelLinesFrom(MapSet(communities, Str(TrimSpace(kv[1])),
                                        Str(TrimSpace(kv[2]))),
                                 lines, i + 1)

\* parseAndMergeCommunities
parseAndMergeCommunities(communities, body) ==
    LabelLinesFrom(communities, Split(body, "\n"), 1)

\* ---------------------------------------------------------- state machine
\* Three variables of type *SearchFilters: A and B are filled by the
\* builders, C receives the results of Combine and Sub.
Slots == {"A", "B", "C"}
Built == {"A", "B"}
Target == "C"

Keys == <<SearchKeySources, SearchKeyASNS, SearchKeyCommunities,
          SearchKeyExtCommunities, SearchKeyLargeCommunities,
          SearchKeyAddrFamily>>

\* the filter a caller adds directly: a source ID given as a string, as a
\* query does
CallerFilters ==
    { [key |-> SearchKeySources, value |-> StringValue("rs1")] }

\* the filters added directly in a recorded run: a source ID comes as a
\* string or as a *string
BuildFilters ==
    { [key |-> SearchKeySources, value |-> StringValue("rs1")],
      [key |-> SearchKeySources, value |-> PtrValue(2)],
      [key |-> SearchKeyCommunities, value |-> CommunityValue(Com1)],
      [key |-> SearchKeyCommunities, value |-> CommunityValue(Com2)] }

\* name and cardinality of a filter handed to AddFilter
Props == { [name |-> "", card |-> 0], [name |-> "label", card |-> 5] }

\* values of every dynamic type, added to groups whatever their key
MixedValues ==
    { IntValue(1), StringValue("1"), PtrValue(3), Uint8Value(4),
      CommunityValue(<<1, 2>>), ExtCommunityValue(Ext1) }
MixedKeys == {SearchKeyASNS}

\* A recorded run keeps the list of its builder calls in observed.log and
\* is bounded by the length of the list; any other run counts its calls.
Record(entry) ==
    IF observed.on
    THEN /\ Len(observed.log) < MaxObserved
         /\ observed' = [observed EXCEPT !.log = Append(@, entry)]
         /\ UNCHANGED <<steps, input, parsed>>
    ELSE /\ steps < MaxSteps
         /\ steps' = steps + 1
         /\ UNCHANGED <<observed, input, parsed>>

Entry(op, r, key, filter) == [op |-> op, r |-> r, key |-> key, filter |-> filter]

NoFilter == NewFilter("", IntValue(0), 0)

\* a call that is not a builder call
Step ==
    IF observed.on
    THEN UNCHANGED <<steps, observed, input, parsed>>
    ELSE /\ steps < MaxSteps
         /\ steps' = steps + 1
         /\ UNCHANGED <<observed, input, parsed>>

\* input is the argument handed to a parser, parsed what the parser returned
NoInput == [op |-> "none", arg |-> <<>>]
NotParsed == [done |-> FALSE]

\* every variable holds NewSearchFilters()
Init ==
    /\ heap = <<>>
    /\ slots = [s \in Slots |-> NewSearchFilters]
    /\ result = "none"
    /\ steps = 0
    /\ observed = [on |-> FALSE, log |-> <<>>]
    /\ input = NoInput
    /\ parsed = NotParsed

\* s.GetGroupByKey(key).AddFilter(&SearchFilter{name, value, card})
CallAddFilter(s, key, value, name, card) ==
    LET res == AddToGroup([heap |-> heap, set |-> slots[s]], key,
                          NewFilter(name, value, card))
    IN  /\ heap' = res.heap
        /\ slots' = [slots EXCEPT ![s] = res.set]
        /\ Record(Entry("add", 0, key, NewFilter(name, value, card)))
        /\ UNCHANGED result

\* s.UpdateFromLookupRoute(r)
CallUpdateFromLookupRoute(s, r) ==
    LET res == UpdateFromLookupRouteOn([heap |-> heap, set |-> slots[s]],
                                       LookupRoutes[r])
    IN  /\ heap' = res.heap
        /\ slots' = [slots EXCEPT ![s] = res.set]
        /\ Record(Entry("lookup", r, "", NoFilter))
        /\ UNCHANGED result

\* s.UpdateFromRoute(r.Route)
CallUpdateFromRoute(s, r) ==
    LET res == UpdateFromRouteBGP([heap |-> heap, set |-> slots[s]],
                                  LookupRoutes[r].BGP)
    IN  /\ heap' = res.heap
        /\ slots' = [slots EXCEPT ![s] = res.set]
        /\ Record(Entry("route", r, "", NoFilter))
        /\ UNCHANGED result

\* s.SetFilterAddrFamilies(ip4, ip6)
CallSetFilterAddrFamilies(s, ip4, ip6) ==
    LET res == SetFilterAddrFamiliesOn([heap |-> heap, set |-> slots[s]],
                                       ip4, ip6)
    IN  /\ ip4 \/ ip6
        /\ heap' = res.heap
        /\ slots' = [slots EXCEPT ![s] = res.set]
        /\ Record(Entry("af", 0, "", NoFilter))
        /\ UNCHANGED result

\* Combine that appends to the filter list of a's groups in place
CallCombineInPlace(a, b, r) ==
    LET res == Combine(heap, slots[a], slots[b])
    IN  /\ Step
        /\ slots' = IF res.panic THEN slots
                    ELSE [slots EXCEPT ![r] = res.set, ![a] = res.set]
        /\ result' = IF res.panic THEN "panic" ELSE result
        /\ UNCHANGED heap

\* r = a.Combine(b); after a panic r keeps its value
CallCombine(a, b, r) ==
    LET res == Combine(heap, slots[a], slots[b])
    IN  /\ Step
        /\ slots' = IF res.panic THEN slots ELSE [slots EXCEPT ![r] = res.set]
        /\ result' = IF res.panic THEN "panic" ELSE result
        /\ UNCHANGED heap

\* r = a.Sub(b)
CallSub(a, b, r) ==
    LET res == Sub(heap, slots[a], slots[b])
    IN  /\ Step
        /\ slots' = IF res.panic THEN slots ELSE [slots EXCEPT ![r] = res.set]
        /\ result' = IF res.panic THEN "panic" ELSE result
        /\ UNCHANGED heap

\* a.MergeProperties(b)
CallMergeProperties(a, b) ==
    LET res == MergeProperties(heap, slots[a], slots[b])
    IN  /\ Step
        /\ heap' = res.heap
        /\ result' = IF res.panic THEN "panic" ELSE result
        /\ UNCHANGED slots

\* result = s.MatchRoute(r)
CallMatchRoute(s, r) ==
    /\ Step
    /\ result' = IF MatchRoute(heap, slots[s], LookupRoutes[r])
                 THEN "true" ELSE "false"
    /\ UNCHANGED <<heap, slots>>

Next ==
    \/ \E s \in Built, f \in CallerFilters :
            CallAddFilter(s, f.key, f.value, "", 0)
    \/ \E s \in Built, r \in RouteIds : CallUpdateFromLookupRoute(s, r)
    \/ \E a \in Slots : \E b \in Slots \ {a} : CallCombine(a, b, Target)
    \/ \E a \in Slots : \E b \in Slots \ {a} : CallSub(a, b, Target)
    \/ \E a \in Slots : \E b \in Slots \ {a} : CallMergeProperties(a, b)

Spec == Init /\ [][Next]_vars

\* A recorded run: one filter set, A, filled by the builders and matched
\* against routes
InitBuild ==
    /\ heap = <<>>
    /\ slots = [s \in Slots |-> NewSearchFilters]
    /\ result = "none"
    /\ steps = 0
    /\ observed = [on |-> TRUE, log |-> <<>>]
    /\ input = NoInput
    /\ parsed = NotParsed

NextBuild ==
    \/ \E f \in BuildFilters, p \in Props :
            CallAddFilter("A", f.key, f.value, p.name, p.card)
    \/ \E r \in RouteIds : CallUpdateFromLookupRoute("A", r)
    \/ \E r \in RouteIds : CallUpdateFromRoute("A", r)
    \/ \E ip4, ip6 \in BOOLEAN : CallSetFilterAddrFamilies("A", ip4, ip6)
    \/ \E r \in RouteIds : CallMatchRoute("A", r)

SpecBuild == InitBuild /\ [][NextBuild]_vars

\* Callers that put values of any type into a group
NextKinds ==
    \/ \E s \in Built, k \in MixedKeys, v \in MixedValues :
            CallAddFilter(s, k, v, "", 0)
    \/ \E a \in Slots : \E b \in Slots \ {a} : CallCombine(a, b, Target)
    \/ \E a \in Slots : \E b \in Slots \ {a} : CallSub(a, b, Target)
    \/ \E a \in Slots : \E b \in Slots \ {a} : CallMergeProperties(a, b)

SpecKinds == Init /\ [][NextKinds]_vars

\* ------------------------------------------------------ parsing the input
\* most colon-delimited segments of a text
MaxSegments == 4
\* most tokens of a token list written out of FewTokens
MaxTokens == 3

\* the segments texts are written of: empty, integers, a tag
Segments == { <<>>, <<"7">>, <<"4", "2">>, <<"R">> }

\* the texts of n segments joined by sep
RECURSIVE Joined(_, _, _)
Joined(parts, sep, n) ==
    IF n = 1 THEN parts
    ELSE { a \o <<sep>> \o b : a \in Joined(parts, sep, n - 1), b \in parts }

CommunityTexts == UNION { Joined(Segments, ":", n) : n \in 1..MaxSegments }

\* the lists of at most n elements of a set
RECURSIVE ListsOf(_, _)
ListsOf(S, n) ==
    IF n = 0 THEN { <<>> }
    ELSE ListsOf(S, n - 1)
         \cup { Append(l, x) : l \in { m \in ListsOf(S, n - 1) : Len(m) = n - 1 },
                               x \in S }

\* search tokens: a community text with and without the marker
SearchTokens == CommunityTexts \cup { <<"#">> \o t : t \in CommunityTexts }

FewTokens ==
    { <<"#", "7", ":", "4", "2">>,
      <<"#", "7", ":", "4", "2", ":", "7">>,
      <<"#", "R", ":", "7", ":", "4", "2">>,
      <<"R">>,
      <<"#", "7">>,
      <<"#", "7", ":", "R">> }

\* the token lists handed to FiltersFromTokens: every search token alone,
\* and the lists of a few tokens
TokenLists == { <<t>> : t \in SearchTokens } \cup ListsOf(FewTokens, MaxTokens)

\* a parser is called once in a run, with the argument input holds
Given(op) == input.op = op /\ ~parsed.done

Returned(res) == [done |-> TRUE, err |-> res.err, set |-> res.set]

\* s, err = FiltersFromTokens(tokens); after an error s keeps its value
CallFiltersFromTokens(s) ==
    LET res == FiltersFromTokens(heap, input.arg)
    IN  /\ Given("tokens")
        /\ heap' = res.heap
        /\ slots' = IF res.err THEN slots ELSE [slots EXCEPT ![s] = res.set]
        /\ parsed' = Returned(res)
        /\ UNCHANGED <<result, steps, observed, input>>

InitTokens ==
    /\ heap = <<>>
    /\ slots = [s \in Slots |-> NewSearchFilters]
    /\ result = "none"
    /\ steps = 0
    /\ observed = [on |-> FALSE, log |-> <<>>]
    /\ input \in { [op |-> "tokens", arg |-> l] : l \in TokenLists }
    /\ parsed = NotParsed

NextTokens == CallFiltersFromTokens("A")

SpecTokens == InitTokens /\ [][NextTokens]_vars

\* most comma-separated values of a query key
MaxValues == 2
\* most keys of a query written out of FewValues
MaxKeys == 2

\* the values of a query: a source ID or integer, a community, a large
\* community, an extended community, a word
QueryItems ==
    { <<"7">>,
      <<"7", ":", "4", "2">>,
      <<"7", ":", "4", "2", ":", "7">>,
      <<"R", ":", "7", ":", "4", "2">>,
      <<"R">> }

QueryTexts == UNION { Joined(QueryItems, ",", n) : n \in 1..MaxValues }

FewValues == { <<"7">>, <<"R">>, <<"7", ",", "7">> }

\* the six keys of the filter set and a key that is none of them
QueryKeys == { Keys[k] : k \in 1..Len(Keys) } \cup { "q" }

\* url.Values: a map of keys to the list of the values given for the key.
\* Every query of one key, with one value or with a second one after it,
\* and the queries of a few keys.
Queries ==
    { [k \in {} |-> <<>>] }
    \cup { [k \in {key} |-> <<v>>] : key \in QueryKeys, v \in QueryTexts }
    \cup { [k \in {key} |-> <<v, <<"R">>>>] : key \in QueryKeys, v \in FewValues }
    \cup UNION { { [k \in K |-> <<f[k]>>] : f \in [K -> FewValues] } :
                 K \in { L \in SUBSET QueryKeys :
                            Cardinality(L) > 1 /\ Cardinality(L) <= MaxKeys } }

\* the orders in which range visits the keys of a map
Orders(S) ==
    { o \in [1..Cardinality(S) -> S] :
        \A i, j \in 1..Cardinality(S) : o[i] = o[j] => i = j }

\* s, err = FiltersFromQuery(query), the keys visited in the given order
CallFiltersFromQuery(s, order) ==
    LET res == FiltersFromQuery(heap, input.arg, order)
    IN  /\ Given("query")
        /\ heap' = res.heap
        /\ slots' = IF res.err THEN slots ELSE [slots EXCEPT ![s] = res.set]
        /\ parsed' = [done |-> TRUE, err |-> res.err, set |-> res.set,
                      at |-> res.at]
        /\ UNCHANGED <<result, steps, observed, input>>

InitQuery ==
    /\ heap = <<>>
    /\ slots = [s \in Slots |-> NewSearchFilters]
    /\ result = "none"
    /\ steps = 0
    /\ observed = [on |-> FALSE, log |-> <<>>]
    /\ input \in { [op |-> "query", arg |-> q] : q \in Queries }
    /\ parsed = NotParsed

NextQuery == \E order \in Orders(DOMAIN input.arg) : CallFiltersFromQuery("A", order)

SpecQuery == InitQuery /\ [][NextQuery]_vars

\* most lines of a body written out of a few lines
MaxLines == 3

\* the tokens range lines are written of: empty, an integer, a range, a tag
RangeSegments == { <<>>, <<"7">>, <<"4", "-", "7">>, <<"R">> }

RangeTexts == UNION { Joined(RangeSegments, ":", n) : n \in 1..MaxSegments }

FewRangeLines ==
    { <<>>,
      <<" ">>,
      <<"#", "R">>,
      <<" ", "#", "7", ":", "7">>,
      <<"7", ":", "4", "2">>,
      <<" ", "7", ":", "4", "-", "7", ":", "7", " ">>,
      <<"R", ":", "7", ":", "4", "-", "7">>,
      <<"R", ":", "7">>,
      <<"7">> }

\* the bodies handed to parseRangeCommunitiesSet: every range text alone,
\* and the bodies of a few lines
RangeBodies ==
    RangeTexts \cup UNION { Joined(FewRangeLines, "\n", n) : n \in 1..MaxLines }

\* set, err = parseRangeCommunitiesSet(body)
CallParseRangeCommunitiesSet ==
    LET res == parseRangeCommunitiesSet(input.arg)
    IN  /\ Given("ranges")
        /\ parsed' = Returned(res)
        /\ UNCHANGED <<heap, slots, result, steps, observed, input>>

InitRanges ==
    /\ heap = <<>>
    /\ slots = [s \in Slots |-> NewSearchFilters]
    /\ result = "none"
    /\ steps = 0
    /\ observed = [on |-> FALSE, log |-> <<>>]
    /\ input \in { [op |-> "ranges", arg |-> b] : b \in RangeBodies }
    /\ parsed = NotParsed

NextRanges == CallParseRangeCommunitiesSet

SpecRanges == InitRanges /\ [][NextRanges]_vars

\* the lines label bodies are written of
LabelLines ==
    { <<>>,
      <<"a", "=", "b">>,
      <<" ", "a", " ", "=", " ", "c", " ">>,
      <<"#", "a", "=", "b">>,
      <<"#", " ", "c">>,
      <<"a">>,
      <<"=">>,
      <<"c", "=", "b", "=", "a">> }

LabelBodies == UNION { Joined(LabelLines, "\n", n) : n \in 1..MaxLines }

\* the directories the labels are merged into
Directories == { [k \in {} |-> ""], [k \in {"a"} |-> "old"] }

\* communities = parseAndMergeCommunities(communities, body)
CallParseAndMergeCommunities ==
    /\ Given("labels")
    /\ parsed' = [done |-> TRUE, err |-> FALSE,
                  set |-> parseAndMergeCommunities(input.communities, input.arg)]
    /\ UNCHANGED <<heap, slots, result, steps, observed, input>>

InitLabels ==
    /\ heap = <<>>
    /\ slots = [s \in Slots |-> NewSearchFilters]
    /\ result = "none"
    /\ steps = 0
    /\ observed = [on |-> FALSE, log |-> <<>>]
    /\ input \in { [op |-> "labels", arg |-> b, communities |-> d] :
                     b \in LabelBodies, d \in Directories }
    /\ parsed = NotParsed

NextLabels == CallParseAndMergeCommunities

SpecLabels == InitLabels /\ [][NextLabels]_vars

\* ================================================================ claims
\* the canonical string of the value of the filter with reference id
Canon(h, id) == filterValueAsString(h[id].Value)

\* the values a group holds, as canonical strings
ValuesOf(h, g) == { Canon(h, g.Filters[i]) : i \in 1..Len(g.Filters) }

GroupIds == 1..Len(Keys)

\* the filters of fs, in order, whose value is not among vals
RECURSIVE Absent(_, _, _, _)
Absent(h, fs, vals, i) ==
    IF i > Len(fs) THEN <<>>
    ELSE IF Canon(h, fs[i]) \in vals THEN Absent(h, fs, vals, i + 1)
    ELSE <<fs[i]>> \o Absent(h, fs, vals, i + 1)

NoDuplicateValue(h, g) ==
    \A i, j \in 1..Len(g.Filters) :
        Canon(h, g.Filters[i]) = Canon(h, g.Filters[j]) => i = j

\* the index of g is exactly the inverse of its filter list
IndexIsInverse(h, g) ==
    /\ DOMAIN g.filtersIdx = ValuesOf(h, g)
    /\ \A i \in 1..Len(g.Filters) :
           g.filtersIdx[Canon(h, g.Filters[i])] = i - 1
    /\ Cardinality(DOMAIN g.filtersIdx) = Len(g.Filters)

\* C1: in every group of every filter set the index is exactly the inverse
\* of the filter list: index[string(Filters[i].Value)] = i for every
\* position i, and the index has as many entries as the list has filters.
ClaimC1 ==
    \A s \in Slots : \A k \in GroupIds : IndexIsInverse(heap, slots[s][k])

\* ------------------------------------------------------------------ C2
\* the direct AddFilter calls of the recorded run on the group of a key
CallsFor(key) ==
    SelectSeq(observed.log, LAMBDA e : e.op = "add" /\ e.key = key)

OnlyAdds == \A i \in 1..Len(observed.log) : observed.log[i].op = "add"

CallValue(calls, j) == filterValueAsString(calls[j].filter.Value)

\* the first call that added the value with canonical string v
FirstCall(calls, v) ==
    CHOOSE j \in 1..Len(calls) :
        /\ CallValue(calls, j) = v
        /\ \A i \in 1..(j - 1) : CallValue(calls, i) # v

CountCalls(calls, v) ==
    Cardinality({ j \in 1..Len(calls) : CallValue(calls, j) = v })

DedupCount(h, g, calls) ==
    /\ ValuesOf(h, g) = { CallValue(calls, j) : j \in 1..Len(calls) }
    /\ NoDuplicateValue(h, g)
    /\ \A i \in 1..Len(g.Filters) :
           LET f == h[g.Filters[i]]
               v == Canon(h, g.Filters[i])
           IN  /\ f.Cardinality = CountCalls(calls, v)
               /\ f.Name = calls[FirstCall(calls, v)].filter.Name
               /\ f.Value = calls[FirstCall(calls, v)].filter.Value
    /\ \A i, j \in 1..Len(g.Filters) :
           i < j => FirstCall(calls, Canon(h, g.Filters[i]))
                        < FirstCall(calls, Canon(h, g.Filters[j]))

\* C2: after a sequence of AddFilter calls on initially empty groups, each
\* group holds exactly one filter per distinct value added to it, in order
\* of first occurrence, whose cardinality is the number of calls made with
\* that value and whose label is that of the first filter added with it.
TheoremC2 ==
    OnlyAdds =>
        \A k \in GroupIds : DedupCount(heap, slots["A"][k], CallsFor(Keys[k]))

\* one value was added three times, by filters that carried cardinality 5
\* and another label than the first
WitnessC2 ==
    /\ OnlyAdds
    /\ Len(observed.log) = 3
    /\ observed.log[1].filter.Name = ""
    /\ observed.log[2].filter.Cardinality = 5
    /\ \E k \in GroupIds :
          /\ Len(slots["A"][k].Filters) = 1
          /\ heap[slots["A"][k].Filters[1]].Cardinality = 3

\* ------------------------------------------------------------------ C3
UnionByValue(h, a, b, k) ==
    LET r == Combine(h, a, b).set[k]
    IN  /\ r.Filters = a[k].Filters \o Absent(h, b[k].Filters, ValuesOf(h, a[k]), 1)
        /\ NoDuplicateValue(h, r)
        /\ ValuesOf(h, r) = ValuesOf(h, a[k]) \cup ValuesOf(h, b[k])

\* C3: for any two filter sets and every facet position, the group of
\* A.Combine(B) holds all filters of A in A's order, followed by the filters
\* of B whose value is not in A, with no value twice; a value present in
\* both keeps A's filter (label and cardinality).
ClaimC3 ==
    \A a, b \in Slots : \A k \in GroupIds :
        UnionByValue(heap, slots[a], slots[b], k)

\* ------------------------------------------------------------------ C4
DifferenceByValue(h, a, b, k) ==
    Sub(h, a, b).set[k].Filters
        = Absent(h, a[k].Filters, ValuesOf(h, b[k]), 1)

\* C4: each group of A.Sub(B) holds exactly the filters of A, in A's order,
\* whose value is absent from B's group at the same position; A.Sub(A) has
\* six empty groups.
ClaimC4 ==
    /\ \A a, b \in Slots : \A k \in GroupIds :
           DifferenceByValue(heap, slots[a], slots[b], k)
    /\ \A a \in Slots : \A k \in GroupIds :
           Sub(heap, slots[a], slots[a]).set[k].Filters = <<>>

\* ------------------------------------------------------------------ C5
InputsKept(a, b) ==
    /\ heap' = heap
    /\ \A s \in {a, b} \ {Target} : slots'[s] = slots[s]
    /\ Len(slots'[Target]) = Len(Keys)
    /\ \A k \in GroupIds : slots'[Target][k].Key = Keys[k]

\* C5: Combine and Sub never mutate their inputs: after r = a.Combine(b) or
\* r = a.Sub(b) every filter has the label and cardinality it had, every
\* group of a and of b has the filter list and the index it had, and r is
\* a filter set of six groups with the facet keys in the fixed order.
TheoremC5 ==
    [][ \A a \in Slots : \A b \in Slots \ {a} :
          (CallCombine(a, b, Target) \/ CallSub(a, b, Target))
              => InputsKept(a, b) ]_vars

\* C holds A.Combine(B) or B.Combine(A), with filters of both
WitnessC5 ==
    \E a \in Built : \E b \in Built \ {a} :
        /\ slots[Target] = Combine(heap, slots[a], slots[b]).set
        /\ \E k \in GroupIds :
              /\ Len(slots[a][k].Filters) > 0
              /\ Len(slots[Target][k].Filters) > Len(slots[a][k].Filters)

\* ------------------------------------------------------------------ C6
\* value, label and cardinality of the filters of a group
LabelledValues(h, g) ==
    { <<Canon(h, g.Filters[i]), h[g.Filters[i]].Name,
        h[g.Filters[i]].Cardinality>> : i \in 1..Len(g.Filters) }

\* the group at one position of (x.Combine(y)).Combine(z) and of
\* x.Combine(y.Combine(z)), from the groups of x, y and z at that position
FoldLeft(h, x, y, z) == CombineGroup(h, CombineGroup(h, x, y).group, z).group
FoldRight(h, x, y, z) == CombineGroup(h, x, CombineGroup(h, y, z).group).group

RouteMatches(k, route, value) ==
    CASE k = 1 -> value.kind = "string"
                  /\ Mem[route.RouteServer.ID] = value.v
      [] k = 2 -> value.kind = "int" /\ route.Neighbor.ASN = value.v
      [] k = 3 -> value.kind = "Community"
                  /\ HasCommunity(route.BGP, value.v)
      [] k = 4 -> value.kind = "ExtCommunity"
                  /\ HasExtCommunity(route.BGP, value.v)
      [] k = 5 -> value.kind = "Community"
                  /\ HasLargeCommunity(route.BGP, value.v)
      [] k = 6 -> value.kind = "int" /\ route.Family = value.v % 256

AcceptsAny(h, g, k, route) ==
    \/ Len(g.Filters) = 0
    \/ \E i \in 1..Len(g.Filters) : RouteMatches(k, route, h[g.Filters[i]].Value)

AcceptsAll(h, g, k, route) ==
    \A i \in 1..Len(g.Filters) : RouteMatches(k, route, h[g.Filters[i]].Value)

Counterparts(h, g, f) ==
    { g.Filters[j] : j \in { i \in 1..Len(g.Filters) :
                               Canon(h, g.Filters[i]) = Canon(h, f) } }

PropertiesMerged(a, b) ==
    /\ slots' = slots
    /\ \A k \in GroupIds : \A i \in 1..Len(slots[a][k].Filters) :
           LET f == slots[a][k].Filters[i]
               cs == Counterparts(heap, slots[b][k], f)
           IN  /\ heap'[f].Value = heap[f].Value
               /\ IF cs = {}
                  THEN heap'[f] = heap[f]
                  ELSE \E g \in cs :
                          /\ heap'[f].Name = heap[g].Name
                          /\ heap'[f].Cardinality = heap[g].Cardinality
    /\ \A k \in GroupIds : \A j \in 1..Len(slots[b][k].Filters) :
           heap'[slots[b][k].Filters[j]] = heap[slots[b][k].Filters[j]]

\* C8: after a.MergeProperties(b) every filter of a whose value has a
\* counterpart of equal value in b's group at the same position has the
\* counterpart's label and cardinality, every other filter of a keeps its
\* own, and neither the values, order or index of a's groups nor anything
\* in b has changed.
ClaimC8 ==
    [][ \A a \in Slots : \A b \in Slots \ {a} :
          CallMergeProperties(a, b) => PropertiesMerged(a, b) ]_vars

\* ------------------------------------------------------------------ C9
\* a string and a *string are both source IDs; every other dynamic type is
\* a kind of its own
KindOf(value) == IF value.kind = "ptr" THEN "string" ELSE value.kind

\* C9: Equal between two filters whose values are of different kinds is
\* false and never panics, in either argument order, so that FindFilter,
\* Contains, Combine, Sub and MergeProperties complete normally.
ClaimC9 ==
    /\ \A i, j \in 1..Len(heap) :
           KindOf(heap[i].Value) # KindOf(heap[j].Value)
               => Equal(heap[i].Value, heap[j].Value) = "false"
    /\ result # "panic"

\* ----------------------------------------------------------------- C10
OnlyRoutes ==
    \A i \in 1..Len(observed.log) : observed.log[i].op \in {"lookup", "route"}

\* the observed routes, of those with an op in ops, that satisfy P
Observed(ops, P(_)) ==
    Cardinality({ i \in 1..Len(observed.log) :
                    /\ observed.log[i].op \in ops
                    /\ P(LookupRoutes[observed.log[i].r]) })

Carries(cs, c) == \E j \in 1..Len(cs) : cs[j] = c

CountsRoutes(h, g, ops, P(_, _)) ==
    \A i \in 1..Len(g.Filters) :
        LET f == h[g.Filters[i]]
        IN  f.Cardinality = Observed(ops, LAMBDA route : P(route, f.Value))

\* C10: after UpdateFromLookupRoute or UpdateFromRoute has been applied to
\* a sequence of routes on an initially empty filter set, the cardinality
\* of each community, ext community and large community filter is the
\* number of observed routes that carry that community, and the
\* cardinality of each source and ASN filter is the number of observed
\* lookup routes with that source or neighbor ASN.
ClaimC10 ==
    OnlyRoutes =>
        LET A == slots["A"]
        IN  /\ CountsRoutes(heap, A[1], {"lookup"},
                   LAMBDA route, v : Mem[route.RouteServer.ID]
                                         = filterValueAsString(v))
            /\ CountsRoutes(heap, A[2], {"lookup"},
                   LAMBDA route, v : route.Neighbor.ASN = v.v)
            /\ CountsRoutes(heap, A[3], {"lookup", "route"},
                   LAMBDA route, v : Carries(route.BGP.Communities, v.v))
            /\ CountsRoutes(heap, A[4], {"lookup", "route"},
                   LAMBDA route, v : Carries(route.BGP.ExtCommunities, v.v))
            /\ CountsRoutes(heap, A[5], {"lookup", "route"},
                   LAMBDA route, v : Carries(route.BGP.LargeCommunities, v.v))

\* ---------------------------------------------------------------- C11
Marked(tokens) == SelectSeq(tokens, LAMBDA t : HasPrefix(t, "#"))

\* the texts after the marker of the marked tokens
MarkedTexts(tokens) ==
    { Tail(Marked(tokens)[i]) : i \in 1..Len(Marked(tokens)) }

SegmentsOf(text) == Split(text, ":")

FirstIsInteger(text) == ~Atoi(SegmentsOf(text)[1]).err

\* the values of the filters a group holds
FilterValues(h, g) == { h[g.Filters[i]].Value : i \in 1..Len(g.Filters) }

\* the community the integers of a text make
CommunityOf(text) == CommunityValue(IntsFrom(SegmentsOf(text), 1))

ExtCommunityOf(text) ==
    ExtCommunityValue(<<Str(SegmentsOf(text)[1]),
                        Atoi(SegmentsOf(text)[2]).v,
                        Atoi(SegmentsOf(text)[3]).v>>)

\* the text is no community: a segment that should be an integer is none,
\* or an extended community has other than three segments
Malformed(text) ==
    IF FirstIsInteger(text)
    THEN \E i \in 1..Len(SegmentsOf(text)) : Atoi(SegmentsOf(text)[i]).err
    ELSE \/ Len(SegmentsOf(text)) # 3
         \/ Atoi(SegmentsOf(text)[2]).err
         \/ Atoi(SegmentsOf(text)[3]).err

TokenFails(text) == Len(SegmentsOf(text)) < 2 \/ Malformed(text)

TokensParsed == input.op = "tokens" /\ parsed.done

\* C11: FiltersFromTokens takes no notice of a token without the marker
\* '#'. Of a marked token, the text after the marker with fewer than 2 colon
\* segments is an error; a text that is a community gives, when its first
\* segment is no integer, a filter in the ext_communities group, otherwise
\* with 2 segments a filter in the communities group and with 3 segments a
\* filter in the large_communities group. The sources, asns and addr_family
\* groups stay empty, and if a token fails the call returns the error and
\* no filter set.
TheoremC11 ==
    TokensParsed =>
        LET tokens == input.arg
            texts == MarkedTexts(tokens)
            onlyMarked == FiltersFromTokens(<<>>, Marked(tokens))
        IN  /\ parsed.err = onlyMarked.err
            /\ parsed.set = onlyMarked.set
            /\ heap = onlyMarked.heap
            /\ (\E t \in texts : Len(SegmentsOf(t)) < 2) => parsed.err
            /\ parsed.err <=> (\E t \in texts : TokenFails(t))
            /\ parsed.err => parsed.set = Nil /\ slots = [s \in Slots |-> NewSearchFilters]
            /\ ~parsed.err =>
                 /\ Len(parsed.set) = Len(Keys)
                 /\ \A k \in GroupIds : parsed.set[k].Key = Keys[k]
                 /\ FilterValues(heap, parsed.set[GetGroupByKey(SearchKeyExtCommunities)])
                      = { ExtCommunityOf(t) : t \in { u \in texts : ~FirstIsInteger(u) } }
                 /\ FilterValues(heap, parsed.set[GetGroupByKey(SearchKeyCommunities)])
                      = { CommunityOf(t) :
                            t \in { u \in texts : /\ FirstIsInteger(u)
                                                  /\ Len(SegmentsOf(u)) = 2 } }
                 /\ \A t \in texts :
                        FirstIsInteger(t) /\ Len(SegmentsOf(t)) = 3 =>
                            CommunityOf(t) \in
                                FilterValues(heap, parsed.set[GetGroupByKey(SearchKeyLargeCommunities)])
                 /\ \A v \in FilterValues(heap, parsed.set[GetGroupByKey(SearchKeyLargeCommunities)]) :
                        v.kind = "Community" /\ Len(v.v) > 2
                 /\ \A key \in {SearchKeySources, SearchKeyASNS, SearchKeyAddrFamily} :
                        parsed.set[GetGroupByKey(key)].Filters = <<>>

\* a list with a token without marker, a community and an extended
\* community has been made a filter set
WitnessC11 ==
    /\ TokensParsed
    /\ ~parsed.err
    /\ Len(Marked(input.arg)) < Len(input.arg)
    /\ Len(parsed.set[GetGroupByKey(SearchKeyCommunities)].Filters) = 1
    /\ Len(parsed.set[GetGroupByKey(SearchKeyExtCommunities)].Filters) = 1

\* a list with a token of one segment has been refused
WitnessC11Error ==
    /\ TokensParsed
    /\ parsed.err
    /\ \E t \in MarkedTexts(input.arg) : Len(SegmentsOf(t)) < 2
    /\ \E t \in MarkedTexts(input.arg) : ~TokenFails(t)

\* ---------------------------------------------------------------- C12
QueryParsed == input.op = "query" /\ parsed.done

\* the keys of the query FiltersFromQuery knows
Recognized(query) == { k \in DOMAIN query : GetGroupByKey(k) # 0 }

ItemsOf(query, key) == Split(query[key][1], ",")

IsInteger(text) == ~Atoi(text).err

\* the item is no value of the key's kind
MalformedItem(key, item) ==
    CASE key = SearchKeySources -> FALSE
      [] key \in {SearchKeyASNS, SearchKeyAddrFamily} -> ~IsInteger(item)
      [] key \in {SearchKeyCommunities, SearchKeyLargeCommunities} ->
            \E i \in 1..Len(SegmentsOf(item)) : ~IsInteger(SegmentsOf(item)[i])
      [] key = SearchKeyExtCommunities ->
            \/ Len(SegmentsOf(item)) # 3
            \/ ~IsInteger(SegmentsOf(item)[2])
            \/ ~IsInteger(SegmentsOf(item)[3])

\* the value an item of the key stands for
ItemValue(key, item) ==
    CASE key = SearchKeySources -> StringValue(Str(item))
      [] key \in {SearchKeyASNS, SearchKeyAddrFamily} -> IntValue(Atoi(item).v)
      [] key \in {SearchKeyCommunities, SearchKeyLargeCommunities} ->
            CommunityOf(item)
      [] key = SearchKeyExtCommunities -> ExtCommunityOf(item)

Occurrences(query, key, value) ==
    Cardinality({ i \in 1..Len(ItemsOf(query, key)) :
                    ItemValue(key, ItemsOf(query, key)[i]) = value })

\* the filters of a group, by value
GroupView(h, g) ==
    [ i \in 1..Len(g.Filters) |-> h[g.Filters[i]] ]

SetView(h, set) == [ k \in 1..Len(set) |-> GroupView(h, set[k]) ]

\* the query without the keys that are no facet key gives the same answer
IgnoresOtherKeys ==
    LET query == input.arg
        known == [ k \in Recognized(query) |-> query[k] ]
    IN  \A order \in Orders(DOMAIN known) :
            LET res == FiltersFromQuery(<<>>, known, order)
            IN  /\ res.err = parsed.err
                /\ ~res.err => SetView(res.heap, res.set) = SetView(heap, parsed.set)

\* one malformed value fails the call, whatever the order of the keys
FailsAsAWhole ==
    LET query == input.arg
    IN  /\ parsed.err <=>
              \E k \in Recognized(query) :
                  \E i \in 1..Len(ItemsOf(query, k)) :
                      MalformedItem(k, ItemsOf(query, k)[i])
        /\ parsed.err =>
              /\ parsed.set = Nil
              /\ slots = [s \in Slots |-> NewSearchFilters]

\* the groups hold the values of their keys, each value once; count(k, f)
\* is the cardinality the filter f of key k has to have
GroupsHoldValues(count(_, _)) ==
    LET query == input.arg
    IN  ~parsed.err =>
            \A k \in GroupIds :
                LET g == parsed.set[k]
                IN  /\ g.Key = Keys[k]
                    /\ NoDuplicateValue(heap, g)
                    /\ IF Keys[k] \in DOMAIN query
                       THEN /\ FilterValues(heap, g) =
                                 { ItemValue(Keys[k], ItemsOf(query, Keys[k])[i]) :
                                     i \in 1..Len(ItemsOf(query, Keys[k])) }
                            /\ \A i \in 1..Len(g.Filters) :
                                   heap[g.Filters[i]].Cardinality =
                                       count(Keys[k], heap[g.Filters[i]])
                       ELSE g.Filters = <<>>

\* C12 as stated: FiltersFromQuery takes no notice of a key that is none of
\* the six facet keys; one malformed value of a facet key fails the whole
\* call, with no filter set, whatever the order of the keys; otherwise the
\* values of each facet key are in the key's group, every distinct value
\* with cardinality 1.
ClaimC12 ==
    QueryParsed =>
        /\ IgnoresOtherKeys
        /\ FailsAsAWhole
        /\ GroupsHoldValues(LAMBDA k, f : 1)

\* C12, amended: as above, but the cardinality of a value is the number of
\* times the value is in the key's comma-separated list (1 when the values
\* of the list are distinct).
TheoremC12 ==
    QueryParsed =>
        /\ IgnoresOtherKeys
        /\ FailsAsAWhole
        /\ GroupsHoldValues(LAMBDA k, f : Occurrences(input.arg, k, f.Value))

\* a query with a key that is no facet key and a facet key whose list has
\* one value twice has been made a filter set
WitnessC12 ==
    /\ QueryParsed
    /\ ~parsed.err
    /\ "q" \in DOMAIN input.arg
    /\ \E k \in GroupIds : \E i \in 1..Len(parsed.set[k].Filters) :
           heap[parsed.set[k].Filters[i]].Cardinality = 2

\* a query with a well-formed key visited before a malformed one has been
\* refused
WitnessC12Error ==
    /\ QueryParsed
    /\ parsed.err
    /\ Len(heap) > 0

\* ---------------------------------------------------------------- C13
RangesParsed == input.op = "ranges" /\ parsed.done

LinesOf(body) == Split(body, "\n")

Trimmed(lines) == [ i \in 1..Len(lines) |-> TrimSpace(lines[i]) ]

IsBlank(line) == TrimSpace(line) = <<>>

IsComment(line) == HasPrefix(TrimSpace(line), "#")

\* the lines that are neither blank nor a comment, trimmed
RemainingLines(body) ==
    SelectSeq(Trimmed(LinesOf(body)), LAMBDA l : ~IsBlank(l) /\ ~IsComment(l))

\* the low and the high value of a token, as written
LowOf(token) == SplitN2(token, "-")[1]
HighOf(token) == SplitN2(token, "-")[Len(SplitN2(token, "-"))]

\* the first token of the line is integer-parseable: its value or, of a
\* token low-high, its low value
FirstTokenIsInteger(line) == IsInteger(LowOf(SegmentsOf(line)[1]))

LineFails(line) ==
    \/ Len(SegmentsOf(line)) < 2
    \/ ~FirstTokenIsInteger(line) /\ Len(SegmentsOf(line)) # 3

RECURSIVE JoinLines(_)
JoinLines(lines) ==
    IF Len(lines) = 0 THEN <<>>
    ELSE IF Len(lines) = 1 THEN lines[1]
    ELSE lines[1] \o <<"\n">> \o JoinLines(Tail(lines))

SizeOf(set) == Len(set.Standard) + Len(set.Large) + Len(set.Extended)

\* C13: parseRangeCommunitiesSet is strict. Blank lines and lines starting
\* with '#' are skipped; if one of the remaining lines fails to parse (fewer
\* than 2 colon tokens, or a first token that is no integer with other than
\* exactly 3 tokens) the call returns an error and a nil set, whatever was
\* parsed before; it returns a set only when every remaining line parsed.
TheoremC13 ==
    RangesParsed =>
        LET remaining == RemainingLines(input.arg)
            alone == parseRangeCommunitiesSet(JoinLines(remaining))
        IN  /\ parsed.err = alone.err
            /\ parsed.set = alone.set
            /\ parsed.err <=> \E i \in 1..Len(remaining) : LineFails(remaining[i])
            /\ parsed.err => parsed.set = Nil
            /\ ~parsed.err =>
                  /\ DOMAIN parsed.set = {"Standard", "Large", "Extended"}
                  /\ SizeOf(parsed.set) = Len(remaining)

\* a body whose first line parsed and whose second line failed has been
\* refused
WitnessC13 ==
    /\ RangesParsed
    /\ parsed.err
    /\ Len(RemainingLines(input.arg)) > 1
    /\ ~LineFails(RemainingLines(input.arg)[1])
    /\ Len(RemainingLines(input.arg)) < Len(LinesOf(input.arg))

\* ---------------------------------------------------------------- C14
IsStandardLine(line) == FirstTokenIsInteger(line) /\ Len(SegmentsOf(line)) = 2
IsLargeLine(line) == FirstTokenIsInteger(line) /\ Len(SegmentsOf(line)) = 3
IsExtendedLine(line) == ~FirstTokenIsInteger(line)

\* the part of a range is the range [low, high] of the token, where the
\* token is written of integers
PartIsRangeOf(part, token) ==
    IsInteger(LowOf(token)) /\ IsInteger(HighOf(token)) =>
        part = IntList(<<Atoi(LowOf(token)).v, Atoi(HighOf(token)).v>>)

\* the range comm is the one the line stands for
RangeIsOf(comm, line) ==
    /\ Len(comm) = Len(SegmentsOf(line))
    /\ IF IsExtendedLine(line)
       THEN /\ comm[1] = StringList(<<Str(LowOf(SegmentsOf(line)[1])),
                                      Str(LowOf(SegmentsOf(line)[1]))>>)
            /\ \A i \in 2..Len(comm) : PartIsRangeOf(comm[i], SegmentsOf(line)[i])
       ELSE \A i \in 1..Len(comm) : PartIsRangeOf(comm[i], SegmentsOf(line)[i])

\* the collection holds the ranges of exactly the lines of one kind
Collects(collection, lines) ==
    /\ Len(collection) = Len(lines)
    /\ \A j \in 1..Len(lines) : RangeIsOf(collection[j], lines[j])

\* C14: every line parseRangeCommunitiesSet accepts is in exactly one of
\* the three collections, so their sizes sum to the number of lines that
\* are neither blank nor a comment. A line whose first token is an integer
\* is in Standard with 2 tokens and in Large with 3; a line whose first
\* token is no integer is in Extended, and is accepted only with exactly 3
\* tokens. A token low-high is the range [low, high], a token v without
\* hyphen the range [v, v].
TheoremC14 ==
    RangesParsed /\ ~parsed.err =>
        LET remaining == RemainingLines(input.arg)
            set == parsed.set
        IN  /\ SizeOf(set) = Len(remaining)
            /\ Collects(set.Standard, SelectSeq(remaining, IsStandardLine))
            /\ Collects(set.Extended, SelectSeq(remaining, IsExtendedLine))
            /\ Collects(set.Large,
                        SelectSeq(remaining,
                                  LAMBDA l : ~IsStandardLine(l) /\ ~IsExtendedLine(l)))
            /\ \A j \in 1..Len(remaining) :
                   IsLargeLine(remaining[j]) =>
                       \E i \in 1..Len(set.Large) :
                           RangeIsOf(set.Large[i], remaining[j])
            /\ \A j \in 1..Len(remaining) :
                   IsExtendedLine(remaining[j]) => Len(SegmentsOf(remaining[j])) = 3

\* a body with a standard, a large and an extended line, one of them with a
\* token low-high, has been parsed
WitnessC14 ==
    /\ RangesParsed
    /\ ~parsed.err
    /\ Len(parsed.set.Standard) = 1
    /\ Len(parsed.set.Large) = 1
    /\ Len(parsed.set.Extended) = 1
    /\ parsed.set.Large[1][2] = IntList(<<4, 7>>)
    /\ parsed.set.Standard[1][2] = IntList(<<42, 42>>)

\* ---------------------------------------------------------------- C15
LabelsParsed == input.op = "labels" /\ parsed.done

HasEquals(line) == \E i \in 1..Len(line) : line[i] = "="

\* the line is of the form key = label and neither blank nor a comment
IsLabelLine(line) == HasEquals(line) /\ ~IsBlank(line) /\ ~IsComment(line)

KeyOf(line) == Str(TrimSpace(SplitN2(line, "=")[1]))
LabelOf(line) == Str(TrimSpace(SplitN2(line, "=")[2]))

RECURSIVE Merged(_, _, _)
Merged(communities, lines, i) ==
    IF i > Len(lines) THEN communities
    ELSE IF IsLabelLine(lines[i])
    THEN Merged(MapSet(communities, KeyOf(lines[i]), LabelOf(lines[i])),
                lines, i + 1)
    ELSE Merged(communities, lines, i + 1)

\* C15: parseAndMergeCommunities never fails; a line without '=' leaves the
\* directory as it is; exactly the lines key = label that are neither blank
\* nor a comment give an entry each, the trimmed key with the trimmed
\* label; a blank line and a line starting with '#' give no entry, also
\* when they have a '='.
ClaimC15 ==
    LabelsParsed =>
        /\ ~parsed.err
        /\ parsed.set = Merged(input.communities, LinesOf(input.arg), 1)

\* ---------------------------------------------------------------- C16
\* the values of the group of the key are communities of n integers
HoldsCommunitiesOf(h, set, key, n) ==
    \A v \in FilterValues(h, set[GetGroupByKey(key)]) :
        v.kind = "Community" /\ Len(v.v) = n

\* C16: in every filter set FiltersFromQuery returns, every filter of the
\* communities group has a community of 2 integers and every filter of the
\* large_communities group a community of 3 integers, whichever of the two
\* keys the value was given under.
ClaimC16 ==
    QueryParsed /\ ~parsed.err =>
        /\ HoldsCommunitiesOf(heap, parsed.set, SearchKeyCommunities, 2)
        /\ HoldsCommunitiesOf(heap, parsed.set, SearchKeyLargeCommunities, 3)

\* ---------------------------------------------------------------- C17
\* the values a group is asked for: values of the kind of its facet
ProbeValues(key) ==
    CASE key = SearchKeySources ->
            { StringValue("rs1"), StringValue("rs2"),
              PtrValue(1), PtrValue(2), PtrValue(3) }
      [] key = SearchKeyASNS -> { IntValue(64512), IntValue(64513) }
      [] key = SearchKeyCommunities ->
            { CommunityValue(Com1), CommunityValue(Com2) }
      [] key = SearchKeyExtCommunities -> { ExtCommunityValue(Ext1) }
      [] key = SearchKeyLargeCommunities -> { CommunityValue(Large1) }
      [] key = SearchKeyAddrFamily ->
            { IntValue(AddrFamilyIPv4), IntValue(AddrFamilyIPv6) }

LookupsAgree(h, g, value) ==
    /\ Contains(h, g, value) = "true" <=> GetFilterByValue(g, value) # Nil
    /\ FindFilter(h, g, value) = GetFilterByValue(g, value)

\* C17: the two lookups of a group agree. In every group made by AddFilter,
\* UpdateFromLookupRoute, Combine and Sub, and for every filter f with a
\* value of the kind of the group's facet (a source ID as string or as
\* pointer to a string), Contains(f) is true iff GetFilterByValue(f.Value)
\* returns a filter, and FindFilter(f) returns that same filter.
ClaimC17 ==
    \A s \in Slots : \A k \in GroupIds : \A value \in ProbeValues(Keys[k]) :
        LookupsAgree(heap, slots[s][k], value)

\* ---------------------------------------------------------------- C18
\* a step in which a builder adds filters to one of the inputs
AddsToInput ==
    \/ \E s \in Built, f \in CallerFilters :
            CallAddFilter(s, f.key, f.value, "", 0)
    \/ \E s \in Built, r \in RouteIds : CallUpdateFromLookupRoute(s, r)

\* a step in which the properties of the result are merged from a set
MergesIntoResult == \E x \in Built : CallMergeProperties(Target, x)

\* value, label and cardinality of the filters of slot s are as before
KeepsFilters(s) == SetView(heap', slots'[s]) = SetView(heap, slots[s])

\* C18: the filter set Combine or Sub returned shares no filter with its
\* inputs. A later MergeProperties on the result leaves label and
\* cardinality of every filter of the inputs as they were, and a later
\* AddFilter on an input leaves the result as it was.
ClaimC18 ==
    [][ /\ AddsToInput => KeepsFilters(Target)
        /\ MergesIntoResult => \A s \in Built : KeepsFilters(s) ]_vars

====
